---- MODULE Spec2Model ----
(***************************************************************************)
(* A model of the LiveSAL saliency network's graph reasoning engine        *)
(* (src/src/models/livesal.py): GraphProcessor.forward run step by step,   *)
(* and LiveSAL.forward as the pipeline that validates its input and hands  *)
(* the fused features to the engine.                                       *)
(*                                                                         *)
(* Tensors are modelled by their shape and by what each batch slot of each *)
(* node depends on: a node tensor is                                       *)
(*    [shape |-> <<batch, C, H, W>>, round |-> k, deps |-> [slot -> set]]  *)
(* where round is the round that computed it (0 for the input) and deps[b] *)
(* is the set of input cells that the values at batch slot b are computed  *)
(* from.  Every operation of the engine acts on each batch slot            *)
(* separately (bmm, Conv2d, LayerNorm over the last three dimensions).     *)
(* A node tensor also carries zero: whether it is exactly the zero tensor. *)
(* zero = FALSE stands for a tensor that is not zero for generic values of *)
(* the learned weights.                                                    *)
(***************************************************************************)
EXTENDS Integers, Sequences, FiniteSets, TLC

\* ---------------------------------------------------------------- bounds
MaxSeqLen == 5
MaxChannels == 12
MaxGroups == 8
MaxScales == 5
MaxBatch == 2
MaxIterations == 3
MaxRadius == 3
HiddenChannels == 2
HalfScale == 2
MaxLogit == 3
Positions == 2
MaxAccumulation == 3
MaxEvaluation == 3
MaxTrainBatches == 4
MaxValBatches == 2
MaxEpochs == 2
MaxFrames == 4
MaxFolders == 4
MaxSetups == 3

\* ------------------------------------------------------ program constants
\* nn.LayerNorm([hidden_channels, 11, 11])
NormSize == 11
\* self.weight = nn.Parameter(torch.tensor(0.5)), counted in halves
WeightInit == 1
\* GRAPH_PROCESSOR_N_ITERATIONS
GRAPH_PROCESSOR_N_ITERATIONS == 3

\* self.fusion takes hidden_channels * 5 channels: one projected feature map
\* per encoder scale, five scales
NumScales == 5

\* 1.0 in the unit the weight is counted in
WeightOne == 2 * WeightInit
\* the values an optimizer step may leave in the parameter: -0.5, 0.5, 1.5
WeightValues == {-WeightInit, WeightInit, 3 * WeightInit}
\* spatial sizes of the inputs tried
SpatialSizes == {1, NormSize, NormSize + 1}

VARIABLES
  n_iterations,   \* GraphProcessor.n_iterations
  neighbor_radius,\* the neighbour radius the configuration asks for; the
                  \* constructor takes none and forward reads none
  weight,         \* GraphProcessor.weight (learned parameter)
  biases_zero,    \* every learned bias of the graph processor is zero
  edge_weights_zero, \* the weights inter_message_edge_conv applies to the
                  \* edge-feature channel are zero
  pc,             \* position in GraphProcessor.forward
  x,              \* the argument of forward: [0..L-1 -> node tensor]
  h,              \* the snapshot of all nodes
  new_h,          \* the list of this round's node states
  round,          \* completed rounds
  node_i,         \* the loop variable i
  out,            \* the returned tensor
  err,            \* what raised
  reads,          \* every read of a node state by a node update
  updates,        \* the node updates performed, in order
  last,           \* the intermediate values of the latest node update
  edges,          \* the edge features computed by the node updates of the call
  output_channels,             \* LiveSAL.output_channels: the sequence length
  with_graph_processing,       \* LiveSAL.with_graph_processing
  with_positional_embeddings,  \* LiveSAL.with_positional_embeddings
  fusion_level,   \* LiveSAL.fusion_level: <<>> until it is stored
  fusion_size,    \* LiveSAL.fusion_size: <<>> until it is stored
  live_pc,        \* position in LiveSAL.forward
  inp,            \* the argument of LiveSAL.forward: its rank and sizes
  stages,         \* the computations LiveSAL.forward has performed, in order
  fused_features, \* the flat (batch * sequence) feature tensor, by flat index
  graph_nodes,    \* the tensor handed to the graph processor
  decoded,        \* per frame, the skip features its decoder blocks consumed
  outputs,        \* the returned maps
  live_err,       \* what LiveSAL.forward raised
  build,          \* the latest call of LiveSAL.__init__: arguments and outcome
  groups,         \* the call of DepthDecoder._get_num_groups in progress
  gru,            \* one element of a ConvGRU.forward call and of an inter-frame gate
  attention,      \* the scores and weights of one attention call
  file,           \* a call of get_set_str followed by get_set_id_from_file_path
  trainer,        \* a Trainer: its attributes and its position in _train_one_epoch
  dataset,        \* a call of DHF1KDataset._get_samples
  datamodule      \* a DHF1KDataModule: its attributes and its datasets

gvars == <<n_iterations, neighbor_radius, weight, biases_zero, edge_weights_zero,
           pc, x, h, new_h, round, node_i, out, err, reads, updates, last, edges>>

\* the learned parameters and the configuration of the graph processor
params == <<n_iterations, neighbor_radius, weight, biases_zero, edge_weights_zero>>

\* the attributes LiveSAL.__init__ stores
config == <<output_channels, with_graph_processing, with_positional_embeddings,
            fusion_level, fusion_size>>

\* the locals of a call of LiveSAL.forward
call == <<live_pc, inp, stages, fused_features, graph_nodes, decoded, outputs, live_err>>

lvars == <<config, call>>

\* what exists only while a model is being built
cvars == <<build, groups>>

\* the components around the network
ovars == <<gru, attention, file, trainer, dataset, datamodule>>

vars == <<gvars, lvars, cvars, ovars>>

\* --------------------------------------------------------------- helpers
Abs(n) == IF n < 0 THEN -n ELSE n

Max(a, b) == IF a >= b THEN a ELSE b

\* a shape padded on the left with 1s to length n (broadcasting)
PadLeft(s, n) == [k \in 1..n |-> IF k <= n - Len(s) THEN 1 ELSE s[k - (n - Len(s))]]

Broadcastable(s, t) ==
  LET n == Max(Len(s), Len(t))
      a == PadLeft(s, n)
      b == PadLeft(t, n)
  IN \A k \in 1..n : a[k] = b[k] \/ a[k] = 1 \/ b[k] = 1

BroadcastShape(s, t) ==
  LET n == Max(Len(s), Len(t))
      a == PadLeft(s, n)
      b == PadLeft(t, n)
  IN [k \in 1..n |-> Max(a[k], b[k])]

NoDeps(batch_size) == [b \in 0..batch_size - 1 |-> {}]

\* ---------------------------------------------------------- GraphProcessor
\* a loop that tests its bound after the first pass
DoWhileRounds(k, n) == k < n \/ k = 0

\* for _ in range(self.n_iterations)
RoundsRemaining(k, n) == k < n

\* [(j, h[j]) for j in range(sequence_length) if abs(i - j) == 1]
Neighbors(i, sequence_length) == {j \in 0..sequence_length - 1 : Abs(i - j) = 1}

\* a sequential update: a node already computed in this pass is read from
\* the list being built
GaussSeidelRead(hh, nh, j) == IF j < Len(nh) THEN nh[j + 1] ELSE hh[j]

\* h[j]: a node update reads the snapshot, never the list being built
ReadNode(hh, nh, j) == hh[j]

\* an edge feature that holds the distance of the two frames
AbsEdgeFeatures(i, j, batch_size, height, width) ==
  [shape |-> <<batch_size, 1, height, width>>, value |-> Abs(i - j)]

\* _compute_edge_features: torch.full((batch_size, 1, height, width), i - j)
EdgeFeatures(i, j, batch_size, height, width) ==
  [shape |-> <<batch_size, 1, height, width>>, value |-> i - j]

\* a Conv2d (bias=True) or LayerNorm applied to a zero tensor gives its bias
AffineOfZeroIsZero == biases_zero

\* _compute_intra_attention: alpha * attention(x) + x, of x's shape; the
\* attention output is softmax weights times value_conv(x)
IntraAttention(t) ==
  [shape |-> t.shape, deps |-> t.deps, zero |-> t.zero /\ AffineOfZeroIsZero]

\* a message whose edge channel always contributes
MessageWithEdgeTerm(y, eij) ==
  /\ y.zero
  /\ eij.value = 0
  /\ AffineOfZeroIsZero

\* y = inter_message_edge_conv(cat([y, eij], dim=1)), then inter_weight, then
\* the softmax-weighted sum of y over its positions: the message of one
\* neighbour is zero when y, the edge channel's contribution and the bias are
MessageIsZero(y, eij) ==
  /\ y.zero
  /\ (edge_weights_zero \/ eij.value = 0)
  /\ AffineOfZeroIsZero

\* _compute_inter_attention: x is rebound to its (batch, C, H*W) view before
\* the loop, so that zeros_like(x) of the empty case has three dimensions;
\* otherwise the messages are summed, each times its gate (a sigmoid)
InterAttention(i, t, nbrs) ==
  LET batch_size == t.shape[1]
      eij(j) == EdgeFeatures(i, j, batch_size, t.shape[3], t.shape[4])
  IN
  IF nbrs = {}
    THEN [shape |-> <<t.shape[1], t.shape[2], t.shape[3] * t.shape[4]>>,
          zero |-> TRUE,
          deps |-> NoDeps(batch_size),
          edges |-> {}]
    ELSE [shape |-> t.shape,
          zero |-> \A jy \in nbrs : MessageIsZero(jy[2], eij(jy[1])),
          deps |-> [b \in 0..batch_size - 1 |->
                      t.deps[b] \cup UNION {jy[2].deps[b] : jy \in nbrs}],
          edges |-> {[i |-> i, j |-> jy[1], shape |-> eij(jy[1]).shape,
                      value |-> eij(jy[1]).value] : jy \in nbrs}]

\* combined_message = w * intra + (1 - w) * inter
FusionIsZero(w, intra, inter) ==
  /\ (w = 0 \/ intra.zero)
  /\ (w = WeightOne \/ inter.zero)

\* ConvGRU.forward: the gates are sigmoids; h_hat = tanh(conv_h([x, r * h]));
\* h_new = (1 - z) * h + z * h_hat
GruIsZero(combined_zero, h_zero) ==
  h_zero /\ combined_zero /\ AffineOfZeroIsZero

\* next_h = self.norm(next_h + h[i])
NormIsZero(gru_zero, h_zero) == gru_zero /\ h_zero /\ AffineOfZeroIsZero

\* self.weight: the raw parameter is the fusion weight
FusionWeight(p) == p

\* ConvGRU.forward: cat([x, h], dim=1) needs x and h to agree outside dim 1,
\* conv_zr needs 2 * hidden_channels channels
GruAccepts(cs, hs) ==
  /\ Len(cs) = 4
  /\ cs[1] = hs[1] /\ cs[3] = hs[3] /\ cs[4] = hs[4]
  /\ cs[2] + hs[2] = 2 * HiddenChannels

\* nn.LayerNorm([hidden_channels, 11, 11])
NormAccepts(s) == s[2] = HiddenChannels /\ s[3] = NormSize /\ s[4] = NormSize

\* the steps of the loop body, in the order of its statements
NodeSteps == <<"intra", "inter", "fusion", "gru", "residual", "norm">>

\* the steps completed when the body raises in the named step, or in none
StepsRun(failure) ==
  CASE failure = "fusion" -> SubSeq(NodeSteps, 1, 2)
    [] failure = "gru" -> SubSeq(NodeSteps, 1, 3)
    [] failure = "layer_norm" -> SubSeq(NodeSteps, 1, 5)
    [] failure = "none" -> NodeSteps

\* which tensor a node update reads as h[i]: node i as computed in some round
StateOf(i, t) == [node |-> i, round |-> t.round]

\* combined_message, from the two attentions of h[i]
Combined(hid, neighbors) ==
  [op |-> "fusion",
   intra |-> [op |-> "intra", of |-> hid],
   inter |-> [op |-> "inter", of |-> hid, neighbors |-> neighbors]]

\* a body that normalises before it adds the residual
NextStateNormFirst(combined, hid) ==
  [op |-> "add",
   left |-> [op |-> "norm",
             of |-> [op |-> "gru", input |-> combined, hidden |-> hid]],
   right |-> hid]

\* next_h = self.gru(combined_message, h[i]); next_h = next_h + h[i];
\* next_h = self.norm(next_h)
NextState(combined, hid) ==
  [op |-> "norm",
   of |-> [op |-> "add",
           left |-> [op |-> "gru", input |-> combined, hidden |-> hid],
           right |-> hid]]

\* one pass of the body of the loop over i
NodeUpdate(hh, nh, i, k, sequence_length) ==
  LET hi == ReadNode(hh, nh, i)
      nbrs == {<<j, ReadNode(hh, nh, j)>> : j \in Neighbors(i, sequence_length)}
      intra == IntraAttention(hi)
      inter == InterAttention(i, hi, nbrs)
      batch_size == hi.shape[1]
      tensor == [shape |-> hi.shape,
                 round |-> k + 1,
                 zero |-> NormIsZero(
                            GruIsZero(FusionIsZero(FusionWeight(weight), intra, inter),
                                      hi.zero),
                            hi.zero),
                 deps |-> [b \in 0..batch_size - 1 |->
                             hi.deps[b] \cup intra.deps[b] \cup inter.deps[b]]]
      failure == IF ~Broadcastable(intra.shape, inter.shape) THEN "fusion"
                 ELSE IF ~GruAccepts(BroadcastShape(intra.shape, inter.shape), hi.shape)
                   THEN "gru"
                 ELSE IF ~NormAccepts(hi.shape) THEN "layer_norm"
                 ELSE "none"
  IN [failure |-> failure, tensor |-> tensor, inter |-> inter,
      neighbors |-> Neighbors(i, sequence_length),
      steps |-> StepsRun(failure),
      term |-> NextState(Combined(StateOf(i, hi), Neighbors(i, sequence_length)),
                         StateOf(i, hi))]

\* torch.stack(new_h, dim=0)
Stack(list) == [k \in 0..Len(list) - 1 |-> list[k + 1]]

SeqLen(t) == Cardinality(DOMAIN t)

\* the input of a call: node i, batch slot b holds input cell <<i, b>>;
\* the input is all-zero or it is not
InputTensor(sequence_length, batch_size, height, width, zero) ==
  [i \in 0..sequence_length - 1 |->
     [shape |-> <<batch_size, HiddenChannels, height, width>>,
      round |-> 0,
      zero |-> zero,
      deps |-> [b \in 0..batch_size - 1 |-> {<<i, b>>}]]]

NoTensor == [i \in {} |-> 0]

NoUpdate == [i |-> -1, neighbors |-> {}, w |-> WeightInit,
             inter_shape |-> <<>>, inter_zero |-> FALSE, node_shape |-> <<>>,
             round |-> 0, steps |-> <<>>, term |-> <<>>]

InitGraph ==
  /\ n_iterations \in 0..MaxIterations
  /\ neighbor_radius \in 0..MaxRadius
  /\ weight = WeightInit
  /\ edges = {}
  /\ pc = "idle"
  /\ x = NoTensor
  /\ h = NoTensor
  /\ new_h = <<>>
  /\ round = 0
  /\ node_i = 0
  /\ out = NoTensor
  /\ err = "none"
  /\ reads = {}
  /\ updates = <<>>
  /\ last = NoUpdate

\* the external training procedure: optimizer.step() rewrites the parameter
OptimizerStep ==
  /\ pc = "idle"
  /\ \E v \in WeightValues \ {weight} : weight' = v
  /\ UNCHANGED <<n_iterations, neighbor_radius, biases_zero, edge_weights_zero, edges,
                 pc, x, h, new_h, round, node_i, out, err,
                 reads, updates, last>>
  /\ UNCHANGED <<lvars, cvars, ovars>>

\* forward(x): h = x
Forward ==
  /\ pc = "idle"
  /\ \E sequence_length \in 1..MaxSeqLen, batch_size \in 1..MaxBatch,
        height \in SpatialSizes, width \in SpatialSizes, zero \in BOOLEAN :
       /\ x' = InputTensor(sequence_length, batch_size, height, width, zero)
       /\ h' = x'
  /\ pc' = "round"
  /\ round' = 0
  /\ UNCHANGED <<params, new_h, node_i, out, err, reads,
                 updates, last>>
  /\ UNCHANGED <<edges, lvars, cvars, ovars>>

\* a round begins: new_h = []
BeginRound ==
  /\ pc = "round"
  /\ RoundsRemaining(round, n_iterations)
  /\ new_h' = <<>>
  /\ node_i' = 0
  /\ pc' = "node"
  /\ UNCHANGED <<params, x, h, round, out, err, reads,
                 updates, last>>
  /\ UNCHANGED <<edges, lvars, cvars, ovars>>

\* the body of the loop over i, for i = node_i
NodeStep ==
  /\ pc = "node"
  /\ node_i < SeqLen(h)
  /\ LET r == NodeUpdate(h, new_h, node_i, round, SeqLen(h)) IN
       /\ reads' = reads \cup
            {[round |-> round + 1, node |-> node_i, src |-> j,
              src_round |-> ReadNode(h, new_h, j).round] :
               j \in {node_i} \cup r.neighbors}
       /\ edges' = edges \cup r.inter.edges
       /\ last' = [i |-> node_i, neighbors |-> r.neighbors,
                   w |-> FusionWeight(weight),
                   inter_shape |-> r.inter.shape,
                   inter_zero |-> r.inter.zero,
                   node_shape |-> h[node_i].shape,
                   round |-> round + 1,
                   steps |-> r.steps,
                   term |-> r.term]
       /\ IF r.failure = "none"
            THEN /\ new_h' = Append(new_h, r.tensor)
                 /\ node_i' = node_i + 1
                 /\ updates' = Append(updates, <<round + 1, node_i>>)
                 /\ UNCHANGED <<pc, err>>
            ELSE /\ pc' = "raised"
                 /\ err' = r.failure
                 /\ UNCHANGED <<new_h, node_i, updates>>
  /\ UNCHANGED <<params, x, h, round, out>>
  /\ UNCHANGED <<lvars, cvars, ovars>>

\* a round that writes the new states into the caller's tensor
EndRoundInPlace ==
  /\ pc = "node"
  /\ node_i = SeqLen(h)
  /\ h' = Stack(new_h)
  /\ x' = h'
  /\ round' = round + 1
  /\ pc' = "round"
  /\ UNCHANGED <<params, new_h, node_i, out, err, reads,
                 updates, last>>
  /\ UNCHANGED <<edges, lvars, cvars, ovars>>

\* the loop over i is over: h = torch.stack(new_h, dim=0)
EndRound ==
  /\ pc = "node"
  /\ node_i = SeqLen(h)
  /\ h' = Stack(new_h)
  /\ round' = round + 1
  /\ pc' = "round"
  /\ UNCHANGED <<params, x, new_h, node_i, out, err, reads,
                 updates, last>>
  /\ UNCHANGED <<edges, lvars, cvars, ovars>>

\* return h
Return ==
  /\ pc = "round"
  /\ ~RoundsRemaining(round, n_iterations)
  /\ out' = h
  /\ pc' = "done"
  /\ UNCHANGED <<params, x, h, new_h, round, node_i, err,
                 reads, updates, last>>
  /\ UNCHANGED <<edges, lvars, cvars, ovars>>

\* the call is over (returned or raised); its locals are gone
Finish ==
  /\ pc \in {"done", "raised"}
  /\ pc' = "idle"
  /\ x' = NoTensor
  /\ h' = NoTensor
  /\ new_h' = <<>>
  /\ round' = 0
  /\ node_i' = 0
  /\ out' = NoTensor
  /\ err' = "none"
  /\ reads' = {}
  /\ updates' = <<>>
  /\ last' = NoUpdate
  /\ edges' = {}
  /\ UNCHANGED params
  /\ UNCHANGED <<lvars, cvars, ovars>>


\* -------------------------------------------------------- LiveSAL.__init__
\* if fusion_level is None: fusion_level = len(self.encoder.feature_sizes) // 2
DefaultFusionLevel(n_scales) == n_scales \div 2

\* a range check that refuses level 0 as well
FusionLevelPositive(level, n_scales) == ~(level <= 0) /\ ~(level >= n_scales)

\* neither of the two checks of fusion_level raises
FusionLevelAccepted(level, n_scales) == ~(level < 0) /\ ~(level >= n_scales)

\* self.encoder.feature_sizes: one entry per scale; the sizes are the
\* encoder's, an entry is named by its scale
FeatureSizes(n_scales) == [k \in 0..n_scales - 1 |-> [scale |-> k]]

\* the fusion_level arguments tried: None (<<>>) and the integers around the
\* valid range
FusionLevelArguments == {<<>>} \cup {<<f>> : f \in -1..MaxScales + 1}

NoBuild == [pc |-> "none", n_scales |-> 0, requested |-> <<>>, level |-> 0]

\* LiveSAL(...), on an encoder of n_scales feature scales
Construct ==
  /\ build.pc = "none"
  /\ \E oc \in 1..MaxSeqLen, gp \in BOOLEAN, pe \in BOOLEAN,
        n_scales \in 1..MaxScales, requested \in FusionLevelArguments :
       LET level == IF requested = <<>> THEN DefaultFusionLevel(n_scales)
                    ELSE requested[1]
       IN /\ output_channels' = oc
          /\ with_graph_processing' = gp
          /\ with_positional_embeddings' = pe
          /\ IF FusionLevelAccepted(level, n_scales)
               THEN /\ fusion_level' = <<level>>
                    /\ fusion_size' = <<FeatureSizes(n_scales)[level]>>
                    /\ build' = [pc |-> "built", n_scales |-> n_scales,
                                 requested |-> requested, level |-> level]
               ELSE /\ UNCHANGED <<fusion_level, fusion_size>>
                    /\ build' = [pc |-> "raised", n_scales |-> n_scales,
                                 requested |-> requested, level |-> level]
  /\ UNCHANGED <<gvars, call, groups, ovars>>

\* the object, built or not, is dropped
Discard ==
  /\ build.pc \in {"built", "raised"}
  /\ build' = NoBuild
  /\ output_channels' = 1
  /\ with_graph_processing' = FALSE
  /\ with_positional_embeddings' = FALSE
  /\ fusion_level' = <<>>
  /\ fusion_size' = <<>>
  /\ UNCHANGED <<gvars, call, groups, ovars>>

\* self.decoder: for _ in range(fusion_level - 1)
DecoderBlocks(level) == Max(level - 1, 0)

\* projected_features_list[: self.fusion_level]: the scales 0..fusion_level-1
SkipFeatures(level) == [k \in 1..level |-> k - 1]

\* skip_features[-(i + 1)]
SkipAt(skip_features, i) == skip_features[Len(skip_features) - i]

\* the loop over self.decoder for one frame: the skip feature of each block
DecodeFrame(level) ==
  [k \in 1..DecoderBlocks(level) |-> SkipAt(SkipFeatures(level), k - 1)]

\* the loop over the frames
Decoded(level, sequence_length) == [t \in 1..sequence_length |-> DecodeFrame(level)]

\* ----------------------------------------------------------------- LiveSAL
\* the checks without the one of with_graph_processing
RejectsWithoutGraphCheck(dim, sequence_length, graph_processing, configured_length) ==
  \/ dim \notin {4, 5}
  \/ (dim = 5 /\ sequence_length # configured_length)

\* forward's three checks of x.dim() and x.shape[1]
Rejects(dim, sequence_length, graph_processing, configured_length) ==
  \/ dim \notin {4, 5}
  \/ (~graph_processing /\ dim = 5)
  \/ (dim = 5 /\ sequence_length # configured_length)

\* x.view(-1, channels, height, width) of a (batch, sequence, ...) tensor, and
\* view(-1, self.output_channels, ...) of the flat tensor: sample b, frame t
\* is flat index b * L + t
SequenceIndex(b, t, sequence_length) == b * sequence_length + t

\* view(self.output_channels, -1, ...): node i, batch slot b of the tensor
\* handed to the graph processor is flat index i * (N / L) + b
GraphIndex(i, b, n_cells, sequence_length) == i * (n_cells \div sequence_length) + b

\* the flat features of a sequence batch: flat index n is frame n % L of
\* sample n / L
VideoFeatures(batch_size, sequence_length) ==
  [n \in 0..batch_size * sequence_length - 1 |->
     [sample |-> n \div sequence_length, frame |-> n % sequence_length, pe |-> <<>>,
      mixed |-> {}]]

\* the flat features of an image batch, each image repeated output_channels
\* times (unsqueeze(1).repeat(1, L, 1, 1, 1).view(batch * L, ...)); a still
\* image is frame -1
ImageFeatures(batch_size, sequence_length) ==
  [n \in 0..batch_size * sequence_length - 1 |->
     [sample |-> n \div sequence_length, frame |-> -1, pe |-> <<>>, mixed |-> {}]]

\* embeddings added along the leading dimension of the graph processor's
\* view: embedding n / batch to flat index n
AddEmbeddingsNodeMajor(flat, sequence_length) ==
  LET batch_size == SeqLen(flat) \div sequence_length IN
  [n \in DOMAIN flat |-> [flat[n] EXCEPT !.pe = Append(@, n \div batch_size)]]

\* _add_positional_embeddings: embedding t is added to flat index b * L + t
AddPositionalEmbeddings(flat, sequence_length) ==
  LET batch_size == SeqLen(flat) \div sequence_length IN
  [n \in DOMAIN flat |->
     LET bt == CHOOSE p \in (0..batch_size - 1) \X (0..sequence_length - 1) :
                 SequenceIndex(p[1], p[2], sequence_length) = n
     IN [flat[n] EXCEPT !.pe = Append(@, bt[2])]]

\* what identifies the features of one frame of one sample
Origin(cell) == [sample |-> cell.sample, frame |-> cell.frame, pe |-> cell.pe]

\* fused_features.view(self.output_channels, -1, channels, height, width)
GraphNodes(flat, sequence_length) ==
  LET batch_size == SeqLen(flat) \div sequence_length IN
  [i \in 0..sequence_length - 1 |->
     [shape |-> <<batch_size, HiddenChannels, NormSize, NormSize>>,
      round |-> 0,
      zero |-> FALSE,
      deps |-> [b \in 0..batch_size - 1 |->
                  {Origin(flat[GraphIndex(i, b, SeqLen(flat), sequence_length)])}]]]

\* GraphProcessor.forward as one call
RECURSIVE RunNodes(_, _, _, _)
RunNodes(hh, nh, i, k) ==
  IF i = SeqLen(hh) THEN [failure |-> "none", list |-> nh]
  ELSE LET r == NodeUpdate(hh, nh, i, k, SeqLen(hh)) IN
       IF r.failure # "none" THEN [failure |-> r.failure, list |-> nh]
       ELSE RunNodes(hh, Append(nh, r.tensor), i + 1, k)

RECURSIVE RunRounds(_, _, _)
RunRounds(hh, k, n) ==
  IF ~RoundsRemaining(k, n) THEN [failure |-> "none", tensor |-> hh]
  ELSE LET r == RunNodes(hh, <<>>, 0, k) IN
       IF r.failure # "none" THEN [failure |-> r.failure, tensor |-> hh]
       ELSE RunRounds(Stack(r.list), k + 1, n)

GraphProcessorForward(t, n) == RunRounds(t, 0, n)

\* graph_features_list.view(batch * L, ...) + fused_features: flat index
\* i * (N / L) + b gets node i, batch slot b of the engine's output
GraphFeatures(flat, nodes_out, sequence_length) ==
  LET batch_size == SeqLen(flat) \div sequence_length IN
  [n \in DOMAIN flat |->
     LET ib == CHOOSE p \in (0..sequence_length - 1) \X (0..batch_size - 1) :
                 GraphIndex(p[1], p[2], SeqLen(flat), sequence_length) = n
     IN [flat[n] EXCEPT !.mixed = nodes_out[ib[1]].deps[ib[2]]]]

\* squeeze(d): dimension d (counted from 0) is removed when its size is 1
Squeeze(shape, d) ==
  IF shape[d + 1] = 1
    THEN [k \in 1..Len(shape) - 1 |-> IF k <= d THEN shape[k] ELSE shape[k + 1]]
    ELSE shape

\* transpose(0, 1)
Transpose01(shape) ==
  [k \in 1..Len(shape) |->
     IF k = 1 THEN shape[2] ELSE IF k = 2 THEN shape[1] ELSE shape[k]]

\* torch.stack(outputs, dim=0).squeeze(2).transpose(0, 1) of the L maps of
\* shape (batch, 1, H, W) that final_layer gives, H, W = x.shape[-2:]
StackedShape(batch_size, sequence_length, height, width) ==
  Transpose01(Squeeze(<<sequence_length, batch_size, 1, height, width>>, 2))

\* the largest value the last convolution of final_layer gives over a map:
\* below zero, zero, above zero, or so large that its sigmoid rounds to 1.0
LogitClasses == {"negative", "zero", "positive", "saturating"}

\* nn.Sigmoid(), the last layer of final_layer
Sigmoid(logit) ==
  CASE logit = "negative" -> "below_half"
    [] logit = "zero" -> "half"
    [] logit = "positive" -> "above_half"
    [] logit = "saturating" -> "one"

\* _decode_features and _get_outputs: view(-1, L, ...).transpose(0, 1), one
\* map per frame, stacked, transposed back to (batch, L) and squeezed to
\* (batch) when outputs.shape[1] == 1; peak is the largest pixel of the
\* maps, what final_layer gave: nothing is applied after it
Outputs(flat, sequence_length, height, width, logit) ==
  LET batch_size == SeqLen(flat) \div sequence_length
      stacked == StackedShape(batch_size, sequence_length, height, width)
  IN
  IF stacked[2] = 1
    THEN [shape |-> Squeeze(stacked, 1),
          peak |-> Sigmoid(logit),
          at |-> [p \in {<<b>> : b \in 0..batch_size - 1} |->
                    flat[SequenceIndex(p[1], 0, sequence_length)]]]
    ELSE [shape |-> stacked,
          peak |-> Sigmoid(logit),
          at |-> [p \in (0..batch_size - 1) \X (0..sequence_length - 1) |->
                    flat[SequenceIndex(p[1], p[2], sequence_length)]]]

NoInput == [dim |-> 0, batch_size |-> 0, sequence_length |-> 0, height |-> 0, width |-> 0]

NoOutputs == [shape |-> <<>>, peak |-> "none", at |-> NoTensor]

NoDecoded == <<>>

\* the inputs tried: ranks 3 to 6; dimension 1 of a rank-5 input is its
\* sequence length
InputRanks == 3..6

\* the inputs tried: square frames of two sizes
InputSizes == {NormSize, 2 * NormSize}

LiveIdle ==
  /\ live_pc = "idle"
  /\ inp = NoInput
  /\ stages = <<>>
  /\ fused_features = NoTensor
  /\ graph_nodes = NoTensor
  /\ decoded = NoDecoded
  /\ outputs = NoOutputs
  /\ live_err = "none"

InitLiveSAL ==
  /\ output_channels \in 1..MaxSeqLen
  /\ with_graph_processing \in BOOLEAN
  /\ with_positional_embeddings \in BOOLEAN
  /\ \E level \in 0..NumScales - 1 :
       /\ fusion_level = <<level>>
       /\ fusion_size = <<FeatureSizes(NumScales)[level]>>
  /\ LiveIdle

\* forward(x), up to is_image = x.dim() == 4
LiveSALForward ==
  /\ live_pc = "idle"
  /\ \E dim \in InputRanks, batch_size \in 1..MaxBatch,
        sequence_length \in 1..MaxSeqLen, size \in InputSizes :
       /\ inp' = [dim |-> dim, batch_size |-> batch_size,
                  sequence_length |-> sequence_length,
                  height |-> size, width |-> size]
       /\ IF Rejects(dim, sequence_length, with_graph_processing, output_channels)
            THEN live_pc' = "raised" /\ live_err' = "shape"
            ELSE live_pc' = "features" /\ live_err' = "none"
  /\ UNCHANGED <<config, decoded,
                 stages, fused_features, graph_nodes, outputs>>

\* _get_features_list, _get_projected_features_list, _get_fused_features
FuseFeatures ==
  /\ live_pc = "features"
  /\ fused_features' =
       IF inp.dim = 4 THEN ImageFeatures(inp.batch_size, output_channels)
       ELSE VideoFeatures(inp.batch_size, inp.sequence_length)
  /\ stages' = stages \o <<"encoder", "projection", "fusion">>
  /\ live_pc' = "embeddings"
  /\ UNCHANGED <<config, decoded,
                 inp, graph_nodes, outputs, live_err>>

\* if self.with_positional_embeddings: _add_positional_embeddings
PositionalEmbeddings ==
  /\ live_pc = "embeddings"
  /\ IF with_positional_embeddings
       THEN /\ fused_features' = AddPositionalEmbeddings(fused_features, output_channels)
            /\ stages' = Append(stages, "positional_embeddings")
       ELSE UNCHANGED <<fused_features, stages>>
  /\ live_pc' = "graph"
  /\ UNCHANGED <<config, decoded,
                 inp, graph_nodes, outputs, live_err>>

\* if self.with_graph_processing: _get_graph_features
GraphProcessing ==
  /\ live_pc = "graph"
  /\ IF with_graph_processing
       THEN LET nodes == GraphNodes(fused_features, output_channels)
                r == GraphProcessorForward(nodes, GRAPH_PROCESSOR_N_ITERATIONS)
            IN /\ graph_nodes' = nodes
               /\ stages' = Append(stages, "graph")
               /\ IF r.failure = "none"
                    THEN /\ fused_features' =
                              GraphFeatures(fused_features, r.tensor, output_channels)
                         /\ live_pc' = "decode"
                         /\ UNCHANGED live_err
                    ELSE /\ live_pc' = "raised"
                         /\ live_err' = r.failure
                         /\ UNCHANGED fused_features
       ELSE /\ live_pc' = "decode"
            /\ UNCHANGED <<graph_nodes, stages, fused_features, live_err>>
  /\ UNCHANGED <<config, decoded,
                 inp, outputs>>

\* _decode_features, _get_outputs, return outputs
DecodeOutputs ==
  /\ live_pc = "decode"
  /\ decoded' = Decoded(fusion_level[1], output_channels)
  /\ \E logit \in LogitClasses :
       outputs' = Outputs(fused_features, output_channels, inp.height, inp.width,
                          logit)
  /\ stages' = stages \o <<"decoder", "outputs">>
  /\ live_pc' = "returned"
  /\ UNCHANGED <<config, inp, fused_features, graph_nodes, live_err>>

\* the call is over (returned or raised); its locals are gone
LiveSALFinish ==
  /\ live_pc \in {"returned", "raised"}
  /\ live_pc' = "idle"
  /\ inp' = NoInput
  /\ stages' = <<>>
  /\ fused_features' = NoTensor
  /\ graph_nodes' = NoTensor
  /\ outputs' = NoOutputs
  /\ live_err' = "none"
  /\ decoded' = NoDecoded
  /\ UNCHANGED config

\* ------------------------------------------- DepthDecoder._get_num_groups
Min(a, b) == IF a < b THEN a ELSE b

\* a loop that never tries one group
LoopStopsAtTwo(num_channels, num_groups) ==
  num_channels % num_groups # 0 /\ num_groups > 2

\* while num_channels % num_groups != 0 and num_groups > 1
LoopContinues(num_channels, num_groups) ==
  num_channels % num_groups # 0 /\ num_groups > 1

NoGroups == [pc |-> "idle", num_channels |-> 0, max_groups |-> 0, num_groups |-> 0]

\* _get_num_groups(num_channels, max_groups): num_groups = min(...)
GetNumGroups ==
  /\ groups.pc = "idle"
  /\ \E num_channels \in 1..MaxChannels, max_groups \in 1..MaxGroups :
       groups' = [pc |-> "loop", num_channels |-> num_channels,
                  max_groups |-> max_groups,
                  num_groups |-> Min(max_groups, num_channels)]
  /\ UNCHANGED <<gvars, lvars, build, ovars>>

\* the loop test holds: num_groups -= 1
GroupsLoop ==
  /\ groups.pc = "loop"
  /\ groups.num_groups # 0
  /\ LoopContinues(groups.num_channels, groups.num_groups)
  /\ groups' = [groups EXCEPT !.num_groups = @ - 1]
  /\ UNCHANGED <<gvars, lvars, build, ovars>>

\* the loop test fails: return num_groups; a modulo by zero raises
GroupsReturn ==
  /\ groups.pc = "loop"
  /\ IF groups.num_groups = 0
       THEN groups' = [groups EXCEPT !.pc = "raised"]
       ELSE /\ ~LoopContinues(groups.num_channels, groups.num_groups)
            /\ groups' = [groups EXCEPT !.pc = "returned"]
  /\ UNCHANGED <<gvars, lvars, build, ovars>>

\* the call is over
GroupsFinish ==
  /\ groups.pc \in {"returned", "raised"}
  /\ groups' = NoGroups
  /\ UNCHANGED <<gvars, lvars, build, ovars>>

\* no model is being built
NotBuilding == build = NoBuild /\ groups = NoGroups

\* the model LiveSAL(...) builds when given no fusion level
DefaultFusion ==
  /\ fusion_level = <<DefaultFusionLevel(NumScales)>>
  /\ fusion_size = <<FeatureSizes(NumScales)[DefaultFusionLevel(NumScales)]>>

\* ----------------------------------------------- the surrounding components
\* ------------------------------------------------------- ConvGRU, elementwise
\* one element of the tensors of a ConvGRU.forward call; values are counted
\* in units of 1 / (2 * HalfScale), the value of a convolution (a logit) is
\* any integer of -MaxLogit..MaxLogit in that unit
One == 2 * HalfScale

Clamp(v, lo, hi) == IF v < lo THEN lo ELSE IF v > hi THEN hi ELSE v

\* a gate activation with the range of tanh
SignedGate(logit) == Clamp(logit, -One, One)

\* nn.Sigmoid: increasing, 1/2 at 0, within [0, 1] and, in floating point,
\* 0.0 and 1.0 at the far ends
GateSigmoid(logit) == Clamp(logit + HalfScale, 0, One)

\* torch.tanh: increasing, 0 at 0, within [-1, 1]
Tanh(logit) == Clamp(logit, -One, One)

\* h_new = (1 - z) * h + z * h_hat, in units of 1 / One^2
HiddenUpdate(z, hidden, h_hat) == (One - z) * hidden + z * h_hat

Logits == -MaxLogit..MaxLogit

NoGru == [pc |-> "idle", h |-> 0, z |-> 0, r |-> 0, h_hat |-> 0, h_new |-> 0,
          gate |-> 0]

\* ConvGRU.forward at one element: the three convolutions give any logits
ConvGRUForward ==
  /\ gru.pc = "idle"
  /\ \E hidden \in Logits, z_logit \in Logits, r_logit \in Logits,
        candidate_logit \in Logits :
       LET z == GateSigmoid(z_logit)
           r == GateSigmoid(r_logit)
           h_hat == Tanh(candidate_logit)
       IN gru' = [pc |-> "gru", h |-> hidden, z |-> z, r |-> r, h_hat |-> h_hat,
                  h_new |-> HiddenUpdate(z, hidden, h_hat), gate |-> 0]
  /\ UNCHANGED <<gvars, lvars, cvars, attention, file, trainer, dataset, datamodule>>

\* gate = self.inter_gate_conv(message): Conv2d, AdaptiveAvgPool2d(1), Sigmoid
InterGate ==
  /\ gru.pc = "idle"
  /\ \E pooled_logit \in Logits :
       gru' = [NoGru EXCEPT !.pc = "gate", !.gate = GateSigmoid(pooled_logit)]
  /\ UNCHANGED <<gvars, lvars, cvars, attention, file, trainer, dataset, datamodule>>

\* the values are consumed
GruFinish ==
  /\ gru.pc \in {"gru", "gate"}
  /\ gru' = NoGru
  /\ UNCHANGED <<gvars, lvars, cvars, attention, file, trainer, dataset, datamodule>>

\* ------------------------------------------------------ attention weights
\* the scores of an attention call: scores[i][j] for query position i and
\* key position j, both of the H * W positions of a feature map; the value
\* of a score (a product of features) is any of a few integers
Scores == {0, 1, 2}

ScoreMatrices == [1..Positions -> [1..Positions -> Scores]]

\* exp, by a function that is positive and increasing
Exp(score) == 2 ^ score

RECURSIVE SumOver(_, _)
SumOver(f, n) == IF n = 0 THEN 0 ELSE f[n] + SumOver(f, n - 1)

\* a softmax over the first of the two position dimensions: weights are
\* fractions <<numerator, denominator>>
SoftmaxFirst(scores) ==
  [i \in 1..Positions |-> [j \in 1..Positions |->
     <<Exp(scores[i][j]), SumOver([k \in 1..Positions |-> Exp(scores[k][j])], Positions)>>]]

\* torch.softmax(attention, dim=-1): over the last dimension
SoftmaxLast(scores) ==
  [i \in 1..Positions |-> [j \in 1..Positions |->
     <<Exp(scores[i][j]), SumOver([k \in 1..Positions |-> Exp(scores[i][k])], Positions)>>]]

NoAttention == [pc |-> "idle", weights |-> <<>>]

\* _compute_intra_attention: softmax(bmm(query^T, key) * scale, dim=-1);
\* the last dimension is the key's positions
IntraAttentionWeights ==
  /\ attention.pc = "idle"
  /\ \E scores \in ScoreMatrices :
       attention' = [pc |-> "intra", weights |-> SoftmaxLast(scores)]
  /\ UNCHANGED <<gvars, lvars, cvars, gru, file, trainer, dataset, datamodule>>

\* _compute_inter_attention: softmax(bmm(x^T, y), dim=-1); the last
\* dimension is the positions of the neighbour y
InterAttentionWeights ==
  /\ attention.pc = "idle"
  /\ \E scores \in ScoreMatrices :
       attention' = [pc |-> "inter", weights |-> SoftmaxLast(scores)]
  /\ UNCHANGED <<gvars, lvars, cvars, gru, file, trainer, dataset, datamodule>>

\* the weights are consumed by the following bmm
AttentionFinish ==
  /\ attention.pc \in {"intra", "inter"}
  /\ attention' = NoAttention
  /\ UNCHANGED <<gvars, lvars, cvars, gru, file, trainer, dataset, datamodule>>

\* ------------------------------------------------------------ utils/file.py
\* the ids tried: the valid ones and their neighbours
ExperimentIds == 0..3

SetIds == -1..2

\* the set string of get_set_str for ids that passed its two checks
SetStr(experiment_id, set_id) ==
  IF experiment_id = 1
    THEN (IF set_id = 1 THEN "images" ELSE "videos")
    ELSE (IF set_id = 1 THEN "overcast" ELSE "clear")

\* set_str_to_id
SetStrToId == [videos |-> 0, images |-> 1, clear |-> 0, overcast |-> 1]

\* the last component of a path
FileName(path) == path[Len(path)]

\* file_path.split("/")[-2]
ParentFolder(path) == path[Len(path) - 1]

\* the folders above the set folder, and the file names, of the paths tried
Roots == {<<"experiment1">>, <<"data", "experiment2">>, <<"data", "raw", "experiment1">>}

FileNames == {"scene1.jpg", "scene2.jpg", "scene3.jpg", "scene4.jpg", "videos"}

NoFile == [pc |-> "idle", experiment_id |-> 0, set_id |-> 0, set_str |-> "",
           path |-> <<>>, recovered |-> -1]

\* get_set_str(experiment_id, set_id)
GetSetStr ==
  /\ file.pc = "idle"
  /\ \E experiment_id \in ExperimentIds, set_id \in SetIds :
       file' = [NoFile EXCEPT
                  !.experiment_id = experiment_id,
                  !.set_id = set_id,
                  !.pc = IF experiment_id \notin {1, 2} \/ set_id \notin {0, 1}
                           THEN "value_error" ELSE "set_str",
                  !.set_str = IF experiment_id \notin {1, 2} \/ set_id \notin {0, 1}
                                THEN "" ELSE SetStr(experiment_id, set_id)]
  /\ UNCHANGED <<gvars, lvars, cvars, gru, attention, trainer, dataset, datamodule>>

\* a file is stored in the folder that get_set_str names
StoreFile ==
  /\ file.pc = "set_str"
  /\ \E root \in Roots, name \in FileNames :
       file' = [file EXCEPT !.pc = "stored",
                            !.path = root \o <<file.set_str, name>>]
  /\ UNCHANGED <<gvars, lvars, cvars, gru, attention, trainer, dataset, datamodule>>

\* get_set_id_from_file_path(file_path): a folder the dictionary lacks raises
GetSetIdFromFilePath ==
  /\ file.pc = "stored"
  /\ LET set_str == ParentFolder(file.path) IN
       IF set_str \in DOMAIN SetStrToId
         THEN file' = [file EXCEPT !.pc = "recovered",
                                   !.recovered = SetStrToId[set_str]]
         ELSE file' = [file EXCEPT !.pc = "key_error"]
  /\ UNCHANGED <<gvars, lvars, cvars, gru, attention, trainer, dataset, datamodule>>

\* the call is over
FileFinish ==
  /\ file.pc \in {"value_error", "recovered", "key_error"}
  /\ file' = NoFile
  /\ UNCHANGED <<gvars, lvars, cvars, gru, attention, trainer, dataset, datamodule>>

\* ------------------------------------------------------- trainers/trainer.py
\* the loss and metric values a batch may give
LossValues == {1, 3}

\* what _forward_pass and Metrics().get_metrics give for one batch of a
\* loader; one metric stands for the five of get_metrics
LoaderBatches ==
  [temporal_loss : LossValues, global_loss : LossValues,
   temporal_metric : LossValues, global_metric : {1}]

\* the loaders given to _evaluate
ValLoaders == UNION {[1..n -> LoaderBatches] : n \in 1..MaxValBatches}

\* the validation loaders given to train: one batch
TrainValLoaders ==
  {<<b>> : b \in {c \in LoaderBatches : c.temporal_metric = 1 /\ c.global_loss = 1}}

\* the keys of the metrics dictionary: "temporal_loss" and f"temporal_{key}"
\* are <<"temporal", key>>, the key of get_metrics is <<key>>
StoredKey(prefix, key) == <<prefix, key>>

\* if key not in metrics: metrics[stored] = []; metrics[stored].append(value)
AppendUnlessKey(metrics, key, stored, value) ==
  LET list == IF key \in DOMAIN metrics /\ stored \in DOMAIN metrics
                THEN metrics[stored] ELSE <<>>
  IN [k \in DOMAIN metrics \cup {stored} |->
        IF k = stored THEN Append(list, value) ELSE metrics[k]]

\* the body of the loop of _evaluate for one batch
EvaluateBatch(metrics, batch) ==
  LET m1 == AppendUnlessKey(metrics, StoredKey("temporal", "loss"),
                            StoredKey("temporal", "loss"), batch.temporal_loss)
      m2 == AppendUnlessKey(m1, StoredKey("global", "loss"),
                            StoredKey("global", "loss"), batch.global_loss)
      m3 == AppendUnlessKey(m2, <<"metric">>,
                            StoredKey("temporal", "metric"), batch.temporal_metric)
      m4 == AppendUnlessKey(m3, <<"metric">>,
                            StoredKey("global", "metric"), batch.global_metric)
  IN m4

RECURSIVE EvaluateLoop(_, _, _)
EvaluateLoop(metrics, loader, k) ==
  IF k > Len(loader) THEN metrics
  ELSE EvaluateLoop(EvaluateBatch(metrics, loader[k]), loader, k + 1)

\* torch.mean(torch.tensor(value)): the sum of the list over its length
Mean(list) == <<SumOver(list, Len(list)), Len(list)>>

\* _evaluate(loader): the unpacking of a _forward_pass that does not return
\* six values raises
Evaluate(arity, loader) ==
  IF arity # 6 THEN [failure |-> "ValueError", stats |-> <<>>]
  ELSE LET metrics == EvaluateLoop(<<>>, loader, 1) IN
       [failure |-> "none", stats |-> [k \in DOMAIN metrics |-> Mean(metrics[k])]]

\* np.inf
Infinity == <<>>

\* self.eval_val_loss < self.best_eval_val_loss, of two fractions
LessThan(loss, best) ==
  best = Infinity \/ loss[1] * best[1][2] < best[1][1] * loss[2]

NoTrainer ==
  [pc |-> "none", arity |-> 0, accumulation_steps |-> 0, evaluation_steps |-> 0,
   best_eval_val_loss |-> Infinity, save_path |-> FALSE, n_batches |-> 0,
   val_loader |-> <<>>, epochs_left |-> 0, batch_idx |-> 0, grad |-> {},
   steps |-> <<>>, evaluated |-> <<>>, saved |-> <<>>, stats |-> <<>>,
   loader |-> <<>>, err |-> "none"]

\* LiveSALTrainer(...), whose _forward_pass returns the 3 values
\* (loss, None, None), or a Trainer whose _forward_pass returns the 6 values
\* that Trainer unpacks
NewTrainer ==
  /\ trainer.pc = "none"
  /\ \E arity \in {3, 6}, accumulation_steps \in 1..MaxAccumulation,
        evaluation_steps \in 1..MaxEvaluation :
       trainer' = [NoTrainer EXCEPT !.pc = "ready", !.arity = arity,
                     !.accumulation_steps = accumulation_steps,
                     !.evaluation_steps = evaluation_steps]
  /\ UNCHANGED <<gvars, lvars, cvars, gru, attention, file, dataset, datamodule>>

\* train(...): save_path is a path or None for all the epochs
Train ==
  /\ trainer.pc = "ready"
  /\ \E save_model \in BOOLEAN, n_epochs \in 1..MaxEpochs,
        n_batches \in 1..MaxTrainBatches, val_loader \in TrainValLoaders :
       trainer' = [trainer EXCEPT !.pc = "epoch", !.save_path = save_model,
                     !.epochs_left = n_epochs, !.n_batches = n_batches,
                     !.val_loader = val_loader, !.batch_idx = 0]
  /\ UNCHANGED <<gvars, lvars, cvars, gru, attention, file, dataset, datamodule>>

\* optimizer.zero_grad(): the gradients hold no batch
ZeroGrad(grad) == {}

\* scaler.scale(train_loss).backward(): the gradients of the batch are added
Backward(grad, batch) == grad \cup {batch}

\* the evaluation of _train_one_epoch: stats["loss"] is read, the model is
\* saved and the best loss replaced when the loss is lower and save_path is set
EvaluationStep(t) ==
  LET ev == Evaluate(t.arity, t.val_loader)
      seen == [t EXCEPT !.evaluated = Append(@, ev.stats)]
  IN IF ev.failure # "none" THEN [t EXCEPT !.pc = "raised", !.err = ev.failure]
     ELSE IF <<"loss">> \notin DOMAIN ev.stats
       THEN [seen EXCEPT !.pc = "raised", !.err = "KeyError"]
     ELSE IF LessThan(ev.stats[<<"loss">>], t.best_eval_val_loss) /\ t.save_path
       THEN [seen EXCEPT !.saved = Append(@, ev.stats[<<"loss">>]),
                         !.best_eval_val_loss = <<ev.stats[<<"loss">>]>>]
     ELSE seen

\* one iteration of the loop of _train_one_epoch
TrainBatch ==
  /\ trainer.pc = "epoch"
  /\ trainer.batch_idx < trainer.n_batches
  /\ LET batch_idx == trainer.batch_idx
         cleared == [trainer EXCEPT !.grad = ZeroGrad(@)]
         backward == [cleared EXCEPT !.grad = Backward(@, batch_idx)]
         stepped == IF (batch_idx + 1) % trainer.accumulation_steps = 0
                      THEN [backward EXCEPT !.steps =
                              Append(@, [batch_idx |-> batch_idx,
                                         epochs_left |-> trainer.epochs_left,
                                         grad |-> backward.grad])]
                      ELSE backward
         evaluated == IF (batch_idx + 1) % trainer.evaluation_steps = 0
                        THEN EvaluationStep(stepped) ELSE stepped
     IN trainer' =
          IF trainer.arity # 6
            THEN [cleared EXCEPT !.pc = "raised", !.err = "ValueError"]
          ELSE IF evaluated.pc = "raised" THEN evaluated
          ELSE [evaluated EXCEPT !.batch_idx = batch_idx + 1]
  /\ UNCHANGED <<gvars, lvars, cvars, gru, attention, file, dataset, datamodule>>

\* the loader is exhausted: train goes to the next epoch or returns
EndEpoch ==
  /\ trainer.pc = "epoch"
  /\ trainer.batch_idx = trainer.n_batches
  /\ trainer' = IF trainer.epochs_left > 1
                  THEN [trainer EXCEPT !.epochs_left = @ - 1, !.batch_idx = 0]
                  ELSE [trainer EXCEPT !.epochs_left = 0, !.pc = "trained"]
  /\ UNCHANGED <<gvars, lvars, cvars, gru, attention, file, dataset, datamodule>>

\* _evaluate(loader) called on a loader
EvaluateLoader ==
  /\ trainer.pc = "ready"
  /\ \E loader \in ValLoaders :
       LET ev == Evaluate(trainer.arity, loader) IN
       trainer' = [trainer EXCEPT !.pc = IF ev.failure = "none" THEN "evaluated"
                                         ELSE "raised",
                     !.err = ev.failure, !.stats = ev.stats, !.loader = loader]
  /\ UNCHANGED <<gvars, lvars, cvars, gru, attention, file, dataset, datamodule>>

\* the trainer is dropped
TrainerFinish ==
  /\ trainer.pc \in {"trained", "raised", "evaluated"}
  /\ trainer' = NoTrainer
  /\ UNCHANGED <<gvars, lvars, cvars, gru, attention, file, dataset, datamodule>>

\* ------------------------------------------------- datasets/dhf1k_dataset.py
\* what the two get_paths_recursive calls find in a folder: the number of
\* frame files and the number of ground truth files
FolderContents == [frames : 0..MaxFrames, ground_truths : 0..MaxFrames]

\* natsorted(paths): the n files of a folder in their natural order; a path
\* is the folder and the number of the file, from 0
SortedPaths(folder, n) == [k \in 1..n |-> <<folder, k - 1>>]

\* frames[:n] without the cut: every frame is kept
KeepAll(frames, n) == frames

\* frames[: len(ground_truths)]
Truncate(frames, n) == SubSeq(frames, 1, n)

\* list[start_idx:end_idx]
Slice(list, start_idx, end_idx) ==
  SubSeq(list, start_idx + 1, IF end_idx < Len(list) THEN end_idx ELSE Len(list))

\* the samples of one folder, for start_idx in range(n_samples)
FolderSamples(frames, ground_truths, sequence_length, n_samples) ==
  [k \in 1..n_samples |->
     [frames |-> Slice(frames, k - 1, k - 1 + sequence_length),
      ground_truths |-> Slice(ground_truths, k - 1, k - 1 + sequence_length)]]

\* the loop of _get_samples from folder k on; SEQUENCE_LENGTH is sequence_length
RECURSIVE GetSamples(_, _, _, _)
GetSamples(folders, sequence_length, k, samples) ==
  IF k > Len(folders) THEN [failure |-> "none", samples |-> samples]
  ELSE LET all_frames == SortedPaths(k, folders[k].frames)
           ground_truths == SortedPaths(k, folders[k].ground_truths)
       IN IF Len(all_frames) < Len(ground_truths)
            THEN [failure |-> "ValueError", samples |-> <<>>]
          ELSE LET frames == Truncate(all_frames, Len(ground_truths))
                   n_samples == Len(frames) - sequence_length + 1
               IN IF n_samples <= 0
                    THEN GetSamples(folders, sequence_length, k + 1, samples)
                    ELSE GetSamples(folders, sequence_length, k + 1,
                           samples \o FolderSamples(frames, ground_truths,
                                                    sequence_length, n_samples))

NoDataset ==
  [pc |-> "idle", folders |-> <<>>, sequence_length |-> 0, samples |-> <<>>,
   err |-> "none"]

\* DHF1KDataset(sample_folder_paths, with_transforms): self.samples is
\* assigned unless _get_samples raises
NewDataset ==
  /\ dataset.pc = "idle"
  /\ \E n \in {1, 2}, sequence_length \in 1..MaxSeqLen :
       \E folders \in [1..n -> FolderContents] :
         LET got == GetSamples(folders, sequence_length, 1, <<>>) IN
         dataset' = [pc |-> IF got.failure = "none" THEN "built" ELSE "raised",
                     folders |-> folders, sequence_length |-> sequence_length,
                     samples |-> got.samples, err |-> got.failure]
  /\ UNCHANGED <<gvars, lvars, cvars, gru, attention, file, trainer, datamodule>>

\* the dataset is dropped
DatasetFinish ==
  /\ dataset.pc \in {"built", "raised"}
  /\ dataset' = NoDataset
  /\ UNCHANGED <<gvars, lvars, cvars, gru, attention, file, trainer, datamodule>>

\* the splits are counted in tenths: train_split = 0.7 is 7
SplitUnit == 10

\* the train_split, val_split, test_split given to the data module; the last
\* two do not sum to 1
SplitChoices == {<<7, 2, 1>>, <<5, 3, 2>>, <<8, 1, 1>>, <<6, 2, 1>>, <<5, 5, 5>>}

\* np.isclose(train_split + val_split + test_split, 1.0)
SplitsSumToOne(splits) == splits[1] + splits[2] + splits[3] = SplitUnit

\* int(split * n)
IntOfProduct(split, n) == (split * n) \div SplitUnit

\* what np.random.shuffle can make of np.arange(n): the orders of 0..n-1
Shuffles(n) ==
  {p \in [1..n -> 0..(n - 1)] : \A i, j \in 1..n : p[i] = p[j] => i = j}

\* sample_indices[from:to]
IndexSlice(sample_indices, from, to) ==
  SubSeq(sample_indices, from + 1, to)

NoDataModule ==
  [pc |-> "none", n |-> 0, splits |-> <<0, 0, 0>>, seeded |-> FALSE,
   seeded_order |-> <<>>, calls |-> 0, train_set |-> FALSE, val_set |-> FALSE,
   test_set |-> FALSE, train |-> <<>>, val |-> <<>>, test |-> <<>>,
   err |-> "none"]

\* DHF1KDataModule(...): the three datasets are None; with a seed, set_seed
\* makes every shuffle of setup give the same order, seeded_order
NewDataModule ==
  /\ datamodule.pc = "none"
  /\ \E n \in 0..MaxFolders, splits \in SplitChoices, seeded \in BOOLEAN :
       \E order \in IF seeded THEN Shuffles(n) ELSE {<<>>} :
         datamodule' = [NoDataModule EXCEPT !.pc = "made", !.n = n,
                          !.splits = splits, !.seeded = seeded,
                          !.seeded_order = order]
  /\ UNCHANGED <<gvars, lvars, cvars, gru, attention, file, trainer, dataset>>

\* setup(stage)
Setup ==
  /\ datamodule.pc = "made"
  /\ datamodule.calls < MaxSetups
  /\ \E stage \in {"fit", "test", "None"} :
       \E sample_indices \in IF datamodule.seeded THEN {datamodule.seeded_order}
                             ELSE Shuffles(datamodule.n) :
         LET n == datamodule.n
             train_samples == IntOfProduct(datamodule.splits[1], n)
             val_samples == IntOfProduct(datamodule.splits[2], n)
             train_indices == IndexSlice(sample_indices, 0, train_samples)
             val_indices == IndexSlice(sample_indices, train_samples,
                                       train_samples + val_samples)
             test_indices == IndexSlice(sample_indices,
                                        train_samples + val_samples, n)
             called == [datamodule EXCEPT !.calls = @ + 1]
             fitted == IF stage \in {"fit", "None"}
                         THEN [called EXCEPT !.train_set = TRUE,
                                 !.train = train_indices, !.val_set = TRUE,
                                 !.val = val_indices]
                         ELSE called
             tested == IF stage \in {"test", "None"}
                         THEN [fitted EXCEPT !.test_set = TRUE,
                                 !.test = test_indices]
                         ELSE fitted
         IN datamodule' =
              IF ~SplitsSumToOne(datamodule.splits)
                THEN [called EXCEPT !.pc = "raised", !.err = "ValueError"]
                ELSE tested
  /\ UNCHANGED <<gvars, lvars, cvars, gru, attention, file, trainer, dataset>>

\* the data module is dropped
DataModuleFinish ==
  /\ datamodule.pc \in {"made", "raised"}
  /\ datamodule.calls > 0
  /\ datamodule' = NoDataModule
  /\ UNCHANGED <<gvars, lvars, cvars, gru, attention, file, trainer, dataset>>

\* none of the surrounding components is in use
OthersIdle ==
  /\ gru = NoGru
  /\ attention = NoAttention
  /\ file = NoFile
  /\ trainer = NoTrainer
  /\ dataset = NoDataset
  /\ datamodule = NoDataModule

\* ---------------------------------------------------------- specifications
\* the graph processor on its own
\* after construction the biases and weights hold their random initial values
Init ==
  /\ biases_zero = FALSE
  /\ edge_weights_zero = FALSE
  /\ output_channels = 1
  /\ with_graph_processing = FALSE
  /\ with_positional_embeddings = FALSE
  /\ DefaultFusion
  /\ NotBuilding
  /\ OthersIdle
  /\ LiveIdle
  /\ InitGraph

Next ==
  \/ OptimizerStep
  \/ Forward
  \/ BeginRound
  \/ NodeStep
  \/ EndRound
  \/ Return
  \/ Finish

Spec == Init /\ [][Next]_vars

\* the graph processor as LiveSAL builds it, its biases and the edge-channel
\* weights of inter_message_edge_conv either zeroed or left as initialised
InitZero ==
  /\ biases_zero \in BOOLEAN
  /\ edge_weights_zero \in BOOLEAN
  /\ n_iterations = GRAPH_PROCESSOR_N_ITERATIONS
  /\ neighbor_radius = 1
  /\ output_channels = 1
  /\ with_graph_processing = FALSE
  /\ with_positional_embeddings = FALSE
  /\ DefaultFusion
  /\ NotBuilding
  /\ OthersIdle
  /\ LiveIdle
  /\ InitGraph

SpecZero == InitZero /\ [][Next]_vars

\* the whole network: LiveSAL.forward on a model built with the default
\* graph processor
InitLive ==
  /\ biases_zero = FALSE
  /\ edge_weights_zero = FALSE
  /\ InitLiveSAL
  /\ NotBuilding
  /\ OthersIdle
  /\ n_iterations = GRAPH_PROCESSOR_N_ITERATIONS
  /\ neighbor_radius = 1
  /\ InitGraph

NextLive ==
  \/ (LiveSALForward /\ UNCHANGED <<gvars, cvars, ovars>>)
  \/ (FuseFeatures /\ UNCHANGED <<gvars, cvars, ovars>>)
  \/ (PositionalEmbeddings /\ UNCHANGED <<gvars, cvars, ovars>>)
  \/ (GraphProcessing /\ UNCHANGED <<gvars, cvars, ovars>>)
  \/ (DecodeOutputs /\ UNCHANGED <<gvars, cvars, ovars>>)
  \/ (LiveSALFinish /\ UNCHANGED <<gvars, cvars, ovars>>)

SpecLiveSAL == InitLive /\ [][NextLive]_vars

\* the construction of models: LiveSAL(...) with every fusion_level argument
InitBuild ==
  /\ biases_zero = FALSE
  /\ edge_weights_zero = FALSE
  /\ n_iterations = GRAPH_PROCESSOR_N_ITERATIONS
  /\ neighbor_radius = 1
  /\ output_channels = 1
  /\ with_graph_processing = FALSE
  /\ with_positional_embeddings = FALSE
  /\ fusion_level = <<>>
  /\ fusion_size = <<>>
  /\ NotBuilding
  /\ OthersIdle
  /\ LiveIdle
  /\ InitGraph

NextBuild ==
  \/ Construct
  \/ Discard

SpecBuild == InitBuild /\ [][NextBuild]_vars

\* the calls of _get_num_groups; the interpreter runs a call to its end
NextGroups ==
  \/ GetNumGroups
  \/ GroupsLoop
  \/ GroupsReturn
  \/ GroupsFinish

SpecGroups ==
  /\ InitBuild
  /\ [][NextGroups]_vars
  /\ WF_vars(GroupsLoop)
  /\ WF_vars(GroupsReturn)

\* the gates of ConvGRU and of the inter-frame messages, element by element
NextGates ==
  \/ ConvGRUForward
  \/ InterGate
  \/ GruFinish

SpecGates == InitBuild /\ [][NextGates]_vars

\* the attention weights of the graph processor
NextAttention ==
  \/ IntraAttentionWeights
  \/ InterAttentionWeights
  \/ AttentionFinish

SpecAttention == InitBuild /\ [][NextAttention]_vars

\* the set strings of utils/file.py and the paths built from them
NextFile ==
  \/ GetSetStr
  \/ StoreFile
  \/ GetSetIdFromFilePath
  \/ FileFinish

SpecFile == InitBuild /\ [][NextFile]_vars

\* the trainer alone
NextTrainer ==
  \/ NewTrainer
  \/ Train
  \/ TrainBatch
  \/ EndEpoch
  \/ EvaluateLoader
  \/ TrainerFinish

SpecTrainer == InitBuild /\ [][NextTrainer]_vars

\* the dataset alone
NextDataset ==
  \/ NewDataset
  \/ DatasetFinish

SpecDataset == InitBuild /\ [][NextDataset]_vars

\* the data module alone
NextDataModule ==
  \/ NewDataModule
  \/ Setup
  \/ DataModuleFinish

SpecDataModule == InitBuild /\ [][NextDataModule]_vars

\* ------------------------------------------------------------------ claims
\* the call in progress, or just over, has performed at least one node update
Updated == pc \in {"node", "round", "done", "raised"} /\ last.i >= 0

CallOver == pc \in {"done", "raised"}

\* the input of the call has the spatial size the normalisation is built for
NormShaped == \A i \in DOMAIN x : NormAccepts(x[i].shape)

\* C1: every read made by the update of a node in round k, of the node's
\* own state or of a neighbour's, is of a state computed in round k-1:
\* no update reads a value computed earlier in the same pass.
C1_SynchronousReads == \A r \in reads : r.src_round = r.round - 1

\* C1 witness: in a round after the first, a node has read a neighbour that
\* was already updated in the same pass.
C1_Witness == \E r \in reads : r.round >= 2 /\ r.src < r.node /\ r.src_round = r.round - 1

\* C3 (as stated): the neighbour set used by a node update is the set of
\* the other nodes within the configured neighbour radius.
C3_Original ==
  Updated =>
    last.neighbors = {j \in 0..SeqLen(x) - 1 :
                        j # last.i /\ Abs(last.i - j) <= neighbor_radius}

\* C4: with n_iterations = 0 a call performs no node update, does not raise,
\* and returns its input unchanged.
C4_ZeroIterationIdentity ==
  n_iterations = 0 =>
    /\ pc \notin {"node", "raised"}
    /\ updates = <<>>
    /\ pc = "done" => out = x

\* C4 witness: a call with n_iterations = 0 has returned an input of a
\* spatial size other than the normalised one.
C4_Witness ==
  /\ n_iterations = 0 /\ pc = "done" /\ out = x
  /\ \E i \in DOMAIN x : x[i].shape[3] # NormSize

\* C5 (as stated): no call fails on the spatial size of its input, every
\* node keeps its shape through every round, and the output has the shape
\* of the input.
C5_Original ==
  /\ pc = "raised" => err # "layer_norm"
  /\ \A k \in 1..Len(new_h) : new_h[k].shape = x[k - 1].shape
  /\ pc = "done" =>
       /\ DOMAIN out = DOMAIN x
       /\ \A i \in DOMAIN x : out[i].shape = x[i].shape

\* C6 (as stated, on inputs of the normalised spatial size): the update of a
\* node with no neighbour gets an all-zero inter-frame message of the node's
\* own shape and does not raise.
C6_Original ==
  (Updated /\ NormShaped /\ last.neighbors = {}) =>
    /\ last.inter_zero
    /\ last.inter_shape = last.node_shape
    /\ pc # "raised"

\* the node updates of n rounds over sequence_length nodes, in order
ExpectedUpdates(n, sequence_length) ==
  [k \in 1..n * sequence_length |->
     <<((k - 1) \div sequence_length) + 1, (k - 1) % sequence_length>>]

\* C7 (as stated, on inputs of the normalised spatial size): the updates run
\* round by round, each round over nodes 0..L-1 once and in order, and every
\* call ends by returning, after exactly n_iterations rounds, the final node
\* states in sequence order.
C7_Original ==
  /\ pc \in {"node", "round", "done", "raised"} =>
       \A k \in 1..Len(updates) :
         updates[k] = ExpectedUpdates(n_iterations, SeqLen(x))[k]
  /\ (CallOver /\ NormShaped) =>
       /\ pc = "done"
       /\ round = n_iterations
       /\ updates = ExpectedUpdates(n_iterations, SeqLen(x))
       /\ DOMAIN out = DOMAIN x
       /\ \A i \in DOMAIN out :
            /\ out[i].round = n_iterations
            /\ \A b \in DOMAIN out[i].deps : <<i, b>> \in out[i].deps[b]

\* C10 (as stated): the fusion weight used by a node update lies in [0, 1].
C10_Original == Updated => (0 <= last.w /\ last.w <= WeightOne)

LiveCallOver == live_pc \in {"returned", "raised"}

Rejected == live_pc = "raised" /\ live_err = "shape"

\* C2 (as stated): for a sequence batch, node i of the tensor handed to the
\* graph processor holds, at batch slot b, the features of frame i of
\* sample b.
C2_Original ==
  (inp.dim = 5 /\ graph_nodes # NoTensor) =>
    \A i \in DOMAIN graph_nodes :
      \A b \in DOMAIN graph_nodes[i].deps :
        \A c \in graph_nodes[i].deps[b] : c.sample = b /\ c.frame = i

\* C8 (as stated): an input whose rank is neither 4 nor 5 is rejected, a
\* rejection precedes every computation, and a call on an accepted input
\* ends by returning its outputs.
C8_Original ==
  /\ (live_pc # "idle" /\ inp.dim \notin {4, 5}) => Rejected
  /\ Rejected => stages = <<>>
  /\ (LiveCallOver /\ ~Rejected) =>
       /\ live_pc = "returned"
       /\ outputs # NoOutputs

\* C9 (as stated): a rank-5 input is rejected exactly when its dimension 1
\* differs from the configured sequence length.
C9_Original ==
  (live_pc # "idle" /\ inp.dim = 5) =>
    (Rejected <=> inp.sequence_length # output_channels)

\* C9 (amended): a rank-5 input is rejected exactly when the model was built
\* without graph processing or dimension 1 of the input differs from the
\* configured sequence length (output_channels).
C9_RejectionRule ==
  (live_pc # "idle" /\ inp.dim = 5) =>
    (Rejected <=>
       (~with_graph_processing \/ inp.sequence_length # output_channels))

\* C9 witness: a rank-5 input of the configured sequence length has been
\* rejected by a model built without graph processing.
C9_Witness ==
  /\ inp.dim = 5 /\ Rejected
  /\ inp.sequence_length = output_channels
  /\ ~with_graph_processing

\* C11: the edge feature a node update computes for the pair (i, j) is one
\* single-channel map of the constant i - j, never zero; the feature of
\* (j, i) is its negation; and the neighbour relation is symmetric: once a
\* round is complete, j was a neighbour of i exactly when i was one of j.
C11_EdgeAntisymmetry ==
  /\ \A e \in edges :
       /\ e.value = e.i - e.j
       /\ e.value # 0
       /\ e.shape[2] = 1
  /\ \A e, f \in edges : (e.i = f.j /\ e.j = f.i) => e.value = -f.value
  /\ (pc \in {"round", "done"} /\ round >= 1) =>
       \A e \in edges : \E f \in edges : f.i = e.j /\ f.j = e.i
  /\ \A r \in reads :
       (r.src # r.node) => r.src \in Neighbors(r.node, SeqLen(x))
                           /\ r.node \in Neighbors(r.src, SeqLen(x))

\* C11 witness: a call has returned after computing the edge features of a
\* pair in both directions, -1 one way and 1 the other.
C11_Witness ==
  /\ pc = "done"
  /\ \E e, f \in edges :
       e.i = f.j /\ e.j = f.i /\ e.value = -1 /\ f.value = 1

\* the input of the call is all-zero
ZeroInput == x # NoTensor /\ \A i \in DOMAIN x : x[i].zero

\* every node state the call holds, in the snapshot, in the list being built
\* and in the returned tensor, is all-zero
AllStatesZero ==
  /\ \A i \in DOMAIN h : h[i].zero
  /\ \A k \in 1..Len(new_h) : new_h[k].zero
  /\ \A i \in DOMAIN out : out[i].zero

\* the scenario of the zero test: five frames, one sample, three rounds
ZeroScenario ==
  /\ SeqLen(x) = 5
  /\ n_iterations = 3
  /\ \A i \in DOMAIN x : x[i].shape[1] = 1
  /\ NormShaped

\* C12 (as stated): on an all-zero input of five frames and one sample,
\* with three rounds and every learned bias zero, every node state is
\* all-zero after every round.
C12_Original == (ZeroInput /\ ZeroScenario /\ biases_zero) => AllStatesZero

\* C12 (amended): on an all-zero input, with every learned bias zero and the
\* edge-channel weights of inter_message_edge_conv zero, every node state is
\* all-zero after every round.
C12_ZeroFixedPoint ==
  (ZeroInput /\ biases_zero /\ edge_weights_zero) => AllStatesZero

\* C12 witness: the call of the scenario has returned, after three rounds
\* over five all-zero frames in which every node had a neighbour's message,
\* five all-zero node states.
C12_Witness ==
  /\ pc = "done" /\ ZeroInput /\ ZeroScenario
  /\ biases_zero /\ edge_weights_zero
  /\ round = 3 /\ Len(updates) = 15
  /\ \A i \in DOMAIN out : out[i].zero /\ out[i].round = 3

\* node i of a stack of node states depends on no input node farther than
\* r per round the state has been through
LocalWithin(t, r) ==
  \A i \in DOMAIN t : \A b \in DOMAIN t[i].deps :
    \A c \in t[i].deps[b] : Abs(i - c[1]) <= t[i].round * r

\* C13 (as stated, on inputs of the normalised spatial size): after k rounds
\* the state of node i depends on the input of node j only if |i - j| is at
\* most k times the configured neighbour radius; and with a radius of at
\* least L - 1 the first update of every node reads every other node.
C13_Original ==
  NormShaped =>
    /\ LocalWithin(h, neighbor_radius)
    /\ LocalWithin(out, neighbor_radius)
    /\ neighbor_radius >= SeqLen(x) - 1 =>
         \A k \in 1..Len(updates) :
           updates[k][1] = 1 =>
             \A j \in DOMAIN x \ {updates[k][2]} :
               \E r \in reads :
                 r.round = 1 /\ r.node = updates[k][2] /\ r.src = j

\* the largest g with 1 <= g <= min(max_groups, num_channels) that divides
\* num_channels
LargestGroupCount(num_channels, max_groups) ==
  CHOOSE g \in 1..Min(max_groups, num_channels) :
    /\ num_channels % g = 0
    /\ \A d \in 1..Min(max_groups, num_channels) : num_channels % d = 0 => d <= g

\* C14: for num_channels >= 1 and max_groups >= 1, _get_num_groups never
\* raises, every call returns, and what it returns is the largest g with
\* 1 <= g <= min(max_groups, num_channels) that divides num_channels.
C14_LargestDivisor ==
  /\ [](/\ groups.pc # "raised"
        /\ groups.pc = "loop" =>
             /\ 1 <= groups.num_groups
             /\ groups.num_groups <= Min(groups.max_groups, groups.num_channels)
        /\ groups.pc = "returned" =>
             groups.num_groups =
               LargestGroupCount(groups.num_channels, groups.max_groups))
  /\ (groups.pc = "loop" ~> groups.pc = "returned")

\* C14 witness: a call has returned, after stepping down from
\* min(max_groups, num_channels), a group count greater than one.
C14_Witness ==
  /\ groups.pc = "returned"
  /\ 1 < groups.num_groups
  /\ groups.num_groups < Min(groups.max_groups, groups.num_channels) - 1
  /\ groups.num_channels % groups.num_groups = 0

\* C15: LiveSAL(...) raises exactly when the fusion level, given or
\* defaulted, is below 0 or at least the number of encoder feature scales;
\* the default, floor(n_scales / 2), is never refused; fusion_level and
\* fusion_size are stored only for an accepted level, and are then that
\* level and the encoder's feature size at that level.
C15_FusionLevelRange ==
  /\ build.pc \in {"built", "raised"} =>
       (build.pc = "raised" <=>
          (build.level < 0 \/ build.level >= build.n_scales))
  /\ (build.pc # "none" /\ build.requested = <<>>) =>
       /\ build.level = build.n_scales \div 2
       /\ build.pc = "built"
  /\ (build.pc # "none" /\ build.requested # <<>>) =>
       build.level = build.requested[1]
  /\ build.pc = "raised" => (fusion_level = <<>> /\ fusion_size = <<>>)
  /\ build.pc = "built" =>
       /\ fusion_level = <<build.level>>
       /\ fusion_size = <<FeatureSizes(build.n_scales)[build.level]>>

\* C15 witness: a construction asked for a fusion level equal to the number
\* of scales of the encoder has been refused and has stored no fusion level.
C15_Witness ==
  /\ build.pc = "raised"
  /\ build.requested = <<build.n_scales>>
  /\ fusion_level = <<>> /\ fusion_size = <<>>

\* C16 (as stated): in a call that returns, the decoder blocks of every
\* frame consume the skip features of the F = fusion_level scales from the
\* deepest (F - 1) to the shallowest (0), each exactly once.
C16_Original ==
  live_pc = "returned" =>
    /\ Len(decoded) = output_channels
    /\ \A t \in 1..Len(decoded) :
         decoded[t] = [k \in 1..fusion_level[1] |-> fusion_level[1] - k]

\* C17 (as stated): a call on an accepted sequence input of shape
\* (B, L, 3, S, S) returns; what it returns has shape (B, L, S, S), or
\* (B, S, S) when the configured number of output maps is 1; and entry
\* [b, t] is the map decoded from frame t of sample b.
C17_Original ==
  (inp.dim = 5 /\ live_pc # "idle" /\ ~Rejected) =>
    /\ LiveCallOver => live_pc = "returned"
    /\ live_pc = "returned" =>
         /\ outputs.shape =
              IF output_channels = 1
                THEN <<inp.batch_size, inp.height, inp.width>>
                ELSE <<inp.batch_size, inp.sequence_length, inp.height, inp.width>>
         /\ \A p \in DOMAIN outputs.at :
              /\ outputs.at[p].sample = p[1]
              /\ outputs.at[p].frame = IF Len(p) = 2 THEN p[2] ELSE 0

\* position of a stage in the list of the computations performed, 0 if it
\* has not been performed
StageAt(name) ==
  IF \E k \in 1..Len(stages) : stages[k] = name
    THEN CHOOSE k \in 1..Len(stages) : stages[k] = name
    ELSE 0

\* C18: in a call on a sequence input by a model with positional
\* embeddings, once the embeddings stage is over the features of frame t of
\* every sample carry the embedding of index t and no other, exactly once,
\* through the rest of the call; the stage runs once, and before the graph
\* processor is given its nodes.
C18_EmbeddingPerFrame ==
  (with_positional_embeddings /\ inp.dim = 5 /\ ~Rejected
     /\ live_pc \in {"graph", "decode", "returned", "raised"}) =>
    /\ \A n \in DOMAIN fused_features :
         fused_features[n].pe = <<fused_features[n].frame>>
    /\ \A b \in 0..inp.batch_size - 1, t \in 0..inp.sequence_length - 1 :
         \E n \in DOMAIN fused_features :
           /\ fused_features[n].sample = b
           /\ fused_features[n].frame = t
           /\ fused_features[n].pe = <<t>>
    /\ Cardinality({k \in 1..Len(stages) : stages[k] = "positional_embeddings"}) = 1
    /\ StageAt("graph") # 0 =>
         /\ StageAt("positional_embeddings") < StageAt("graph")
         /\ \A i \in DOMAIN graph_nodes : \A b \in DOMAIN graph_nodes[i].deps :
              \A c \in graph_nodes[i].deps[b] : c.pe = <<c.frame>>

\* C18 witness: a call on two or more samples of two or more frames has
\* returned after the embeddings stage and the graph processor.
C18_Witness ==
  /\ with_positional_embeddings /\ inp.dim = 5 /\ live_pc = "returned"
  /\ inp.batch_size >= 2 /\ inp.sequence_length >= 2
  /\ StageAt("graph") # 0
  /\ \A n \in DOMAIN fused_features :
       fused_features[n].pe = <<fused_features[n].frame>>

\* C19: GraphProcessor.forward is a pure function of its input and the
\* parameters: no step of a call changes a parameter or the caller's
\* tensor, nothing of a call is left when it is over, and what a call
\* returns (or the failure it raises) is what the function of input and
\* parameters gives.
C19_PureForward ==
  /\ [][pc # "idle" => (params' = params /\ (pc' # "idle" => x' = x))]_vars
  /\ [](pc = "idle" =>
          /\ x = NoTensor /\ h = NoTensor /\ new_h = <<>> /\ out = NoTensor
          /\ reads = {} /\ updates = <<>> /\ edges = {} /\ last = NoUpdate)
  /\ [](pc = "done" =>
          /\ GraphProcessorForward(x, n_iterations).failure = "none"
          /\ out = GraphProcessorForward(x, n_iterations).tensor)
  /\ [](pc = "raised" => err = GraphProcessorForward(x, n_iterations).failure)

\* C19 witness: a call of two rounds or more has returned node states other
\* than its input, and the caller's tensor still holds the input.
C19_Witness ==
  /\ pc = "done" /\ round >= 2
  /\ out # x
  /\ \A i \in DOMAIN x : x[i].round = 0 /\ out[i].round = round

\* C20 (as stated): the largest pixel of every map a call returns is 1.
\* (No map is uniformly zero: a sigmoid is above zero.)
C20_Original ==
  (live_pc = "returned" /\ DOMAIN outputs.at # {}) => outputs.peak = "one"

\* C21: the update gate z and the reset gate r of ConvGRU and the gate of an
\* inter-frame message lie in [0, 1], and h_new = (1 - z) * h + z * h_hat
\* lies between h and h_hat.
C21_GatesBounded ==
  /\ gru.pc = "gru" =>
       /\ 0 <= gru.z /\ gru.z <= One
       /\ 0 <= gru.r /\ gru.r <= One
       /\ Min(gru.h, gru.h_hat) * One <= gru.h_new
       /\ gru.h_new <= Max(gru.h, gru.h_hat) * One
  /\ gru.pc = "gate" => (0 <= gru.gate /\ gru.gate <= One)

\* C21 witness: an update gate strictly between 0 and 1 has given a new
\* hidden state strictly between two different h and h_hat.
C21_Witness ==
  /\ gru.pc = "gru"
  /\ 0 < gru.z /\ gru.z < One
  /\ gru.h < gru.h_hat
  /\ gru.h * One < gru.h_new /\ gru.h_new < gru.h_hat * One

RECURSIVE ProductOver(_, _)
ProductOver(f, n) == IF n = 0 THEN 1 ELSE f[n] * ProductOver(f, n - 1)

\* the fractions row[1..Positions] sum to 1: with d the product of the
\* denominators, the sum of numerator * d / denominator is d
SumsToOne(row) ==
  LET d == ProductOver([j \in 1..Positions |-> row[j][2]], Positions) IN
  SumOver([j \in 1..Positions |-> row[j][1] * (d \div row[j][2])], Positions) = d

\* C22: the weights of an intra-frame or inter-frame attention are
\* non-negative, and for every query position they sum to 1 over the key
\* positions (the neighbour's positions for an inter-frame attention).
C22_AttentionNormalised ==
  attention.pc \in {"intra", "inter"} =>
    \A i \in 1..Positions :
      /\ \A j \in 1..Positions :
           attention.weights[i][j][1] >= 0 /\ attention.weights[i][j][2] > 0
      /\ SumsToOne(attention.weights[i])

\* C22 witness: an inter-frame attention has given one query position
\* unequal weights over the neighbour's positions, and two query positions
\* different weights.
C22_Witness ==
  /\ attention.pc = "inter"
  /\ attention.weights[1][1] # attention.weights[1][2]
  /\ attention.weights[1] # attention.weights[2]

C24_StepOrder ==
  Updated =>
    LET order == <<"intra", "inter", "fusion", "gru", "residual", "norm">>
        h_i == [node |-> last.i, round |-> last.round - 1]
    IN
    /\ Len(last.steps) <= Len(order)
    /\ \A k \in 1..Len(last.steps) : last.steps[k] = order[k]
    /\ (pc # "raised") =>
         /\ last.steps = order
         /\ last.term.op = "norm"
         /\ last.term.of.op = "add"
         /\ last.term.of.right = h_i
         /\ last.term.of.left.op = "gru"
         /\ last.term.of.left.hidden = h_i
         /\ last.term.of.left.input.op = "fusion"
         /\ last.term.of.left.input.intra.of = h_i
         /\ last.term.of.left.input.inter.of = h_i
    /\ (pc = "raised") => Len(last.steps) < Len(order)

\* C24 witness: in the third round a node between two neighbours has been
\* updated from its state of the second round.
C24_Witness ==
  /\ Updated /\ pc = "node"
  /\ last.round = 3 /\ Cardinality(last.neighbors) = 2
  /\ last.steps[6] = "norm"
  /\ last.term.of.right = [node |-> last.i, round |-> 2]

\* C25: for every key _evaluate reports (the temporal and global loss and every
\* temporal_ and global_ metric) the value returned is the mean of that
\* quantity over all the batches of the loader.
C25_Original ==
  trainer.pc = "evaluated" =>
    /\ DOMAIN trainer.stats =
         {StoredKey(p, k) : p \in {"temporal", "global"}, k \in {"loss", "metric"}}
    /\ \A p \in {"temporal", "global"}, k \in {"loss", "metric"} :
         LET n == Len(trainer.loader)
             all == SumOver([b \in 1..n |->
                      IF k = "loss"
                        THEN IF p = "temporal" THEN trainer.loader[b].temporal_loss
                             ELSE trainer.loader[b].global_loss
                        ELSE IF p = "temporal" THEN trainer.loader[b].temporal_metric
                             ELSE trainer.loader[b].global_metric], n)
             got == trainer.stats[StoredKey(p, k)]
         IN got[1] * n = all * got[2]

\* C26: the optimizer is stepped exactly at the batches whose batch_idx + 1 is
\* a multiple of accumulation_steps, and the gradient it applies is the
\* accumulation of the gradients of all the batches since the previous step.
C26_Original ==
  trainer.arity = 6 =>
    /\ \A k \in 1..Len(trainer.steps) :
         LET step == trainer.steps[k] IN
         /\ (step.batch_idx + 1) % trainer.accumulation_steps = 0
         /\ step.grad =
              (step.batch_idx + 1 - trainer.accumulation_steps)..step.batch_idx
    /\ trainer.pc = "epoch" =>
         Cardinality({k \in 1..Len(trainer.steps) :
                        trainer.steps[k].epochs_left = trainer.epochs_left})
           = trainer.batch_idx \div trainer.accumulation_steps

\* C27: best_eval_val_loss never increases, the model is saved exactly when an
\* evaluation's validation loss is strictly lower than it and a save path is
\* set, and after each save it is the least validation loss seen so far.
C27_Original ==
  trainer.pc \in {"epoch", "trained", "raised"} =>
    /\ (trainer.save_path /\ trainer.evaluated # <<>>) => trainer.saved # <<>>
    /\ ~trainer.save_path => trainer.saved = <<>>
    /\ trainer.saved = <<>> <=> trainer.best_eval_val_loss = Infinity
    /\ trainer.saved # <<>> =>
         /\ trainer.best_eval_val_loss = <<trainer.saved[Len(trainer.saved)]>>
         /\ \A k \in 1..(Len(trainer.saved) - 1) :
              LessThan(trainer.saved[k + 1], <<trainer.saved[k]>>)

\* C28: the trainer protocol is consistent: what LiveSALTrainer._forward_pass
\* returns can be unpacked into the six values _train_one_epoch and _evaluate
\* expect, and the statistics of _evaluate hold the key read as validation loss.
C28_Original ==
  ~(trainer.pc = "raised" /\ trainer.err \in {"ValueError", "KeyError"})

\* the windows a folder with g ground truths must give
ExpectedWindows(g, sequence_length) ==
  IF g - sequence_length + 1 > 0 THEN g - sequence_length + 1 ELSE 0

\* C29: for a folder with f frame files and g ground truth files with f >= g,
\* _get_samples builds exactly max(0, g - SEQUENCE_LENGTH + 1) windows, each
\* of SEQUENCE_LENGTH consecutive frames and the ground truths of the same
\* indices, with starts 0, 1, 2, ...; the frames beyond g are in no window;
\* a folder with f < g raises ValueError.
C29_SlidingWindows ==
  LET folders == dataset.folders
      L == dataset.sequence_length
      short == {k \in 1..Len(folders) : folders[k].frames < folders[k].ground_truths}
      before(k) == SumOver([j \in 1..Len(folders) |->
                              ExpectedWindows(folders[j].ground_truths, L)], k - 1)
  IN /\ dataset.pc = "raised" => dataset.err = "ValueError" /\ short # {}
     /\ dataset.pc = "built" =>
          /\ short = {}
          /\ Len(dataset.samples) = before(Len(folders) + 1)
          /\ \A k \in 1..Len(folders) :
               \A start \in 0..(ExpectedWindows(folders[k].ground_truths, L) - 1) :
                 LET sample == dataset.samples[before(k) + start + 1]
                     window == [i \in 1..L |-> <<k, start + i - 1>>]
                 IN /\ sample.frames = window
                    /\ sample.ground_truths = window
                    /\ start + L <= folders[k].ground_truths

\* a folder with more frames than ground truths and at least two windows is
\* built, and a folder with too few ground truths for a window is skipped
C29_Witness ==
  /\ dataset.pc = "built"
  /\ Len(dataset.folders) = 2
  /\ dataset.folders[1].frames > dataset.folders[1].ground_truths
  /\ ExpectedWindows(dataset.folders[1].ground_truths, dataset.sequence_length) >= 2
  /\ dataset.folders[2].ground_truths > 0
  /\ ExpectedWindows(dataset.folders[2].ground_truths, dataset.sequence_length) = 0
  /\ Len(dataset.samples) >= 2

\* the folders of a list of indices
Range(list) == {list[i] : i \in 1..Len(list)}

\* C30: after any sequence of setup calls (for example "fit" then "test") the
\* folder sets of the train, validation and test datasets are pairwise
\* disjoint and together cover every folder, with int(train_split * n) and
\* int(val_split * n) folders in the first two; when the splits do not sum
\* to 1, setup raises ValueError and assigns no dataset.
C30_Original ==
  /\ (datamodule.train_set /\ datamodule.val_set /\ datamodule.test_set) =>
       /\ Range(datamodule.train) \cap Range(datamodule.val) = {}
       /\ Range(datamodule.train) \cap Range(datamodule.test) = {}
       /\ Range(datamodule.val) \cap Range(datamodule.test) = {}
       /\ Range(datamodule.train) \cup Range(datamodule.val)
            \cup Range(datamodule.test) = 0..(datamodule.n - 1)
       /\ Len(datamodule.train) = IntOfProduct(datamodule.splits[1], datamodule.n)
       /\ Len(datamodule.val) = IntOfProduct(datamodule.splits[2], datamodule.n)
  /\ (datamodule.calls > 0 /\ ~SplitsSumToOne(datamodule.splits)) =>
       /\ datamodule.pc = "raised"
       /\ datamodule.err = "ValueError"
       /\ ~datamodule.train_set /\ ~datamodule.val_set /\ ~datamodule.test_set

====
